---- MODULE Spec2Model ----
(***************************************************************************)
(* State-machine model of the document annotation backend:                 *)
(*   extract_text.py  extract_pdf_layout  (normalise, sort, hyphen merge,  *)
(*                                         greedy phrase extraction)       *)
(*   ontology.py      extract_ontology_terms / lookup_term_ols4            *)
(*   server.py        extract  (the /extract request and annotation merge) *)
(* Texts are sequences of one-character strings, so that lower(), strip(), *)
(* endswith(), substring tests and string order are computed, not assumed. *)
(***************************************************************************)
EXTENDS Integers, Sequences, FiniteSets, TLC

VARIABLES
    mode,          \* which entry point this behaviour exercises
    pc,            \* position inside the running function
    outcome,       \* "running", "returned", or the exception that escaped
    doc,           \* the PDF: a sequence of pages, each with its raw word records
    page_index,    \* extract_pdf_layout: enumerate(pdf.pages) index (0-based)
    normalized,    \* extract_pdf_layout: the page's normalized, sorted words
    mi,            \* extract_pdf_layout: hyphen-merge cursor i (0-based)
    merged,        \* extract_pdf_layout: the page's merged list
    all_words,     \* extract_pdf_layout: all_words
    pages_output,  \* extract_pdf_layout: pages_output
    phrases,       \* extract_pdf_layout: phrases
    pi,            \* extract_pdf_layout: phrase-scan cursor i (0-based)
    render_metadata, \* the render_metadata argument of extract_pdf_layout
    pages_arg,     \* extract_ontology_terms: its pages_output argument
    collected,     \* extract_ontology_terms: candidate_terms before the cap
    candidate_terms, \* extract_ontology_terms: candidate_terms
    queue,         \* extract_ontology_terms: sorted(candidate_terms) of step 3
    qi,            \* extract_ontology_terms: position in that loop (0-based)
    found_terms,   \* extract_ontology_terms: found_terms
    lookups,       \* history: the calls of lookup_term_ols4 made so far
    lk_term,       \* lookup_term_ols4: its argument
    lk_resp,       \* lookup_term_ols4: what the search service answers
    lk_result,     \* lookup_term_ols4: its return value
    unified_hits,  \* extract: unified_hits
    mp,            \* extract: position in `for phrase_obj in all_phrases`
    mw,            \* extract: position in `for w in all_words`
    annot,         \* extract: the definition / source keys set on each word
    has_file,      \* extract: "file" in request.files
    response       \* extract: the HTTP status answered

layoutVars == <<doc, render_metadata, page_index, normalized, mi, merged,
                all_words, pages_output, phrases, pi>>
ontoVars == <<pages_arg, collected, candidate_terms, queue, qi, found_terms,
              lookups>>
lookupVars == <<lk_term, lk_resp, lk_result>>
mergeVars == <<unified_hits, mp, mw, annot>>
reqVars == <<has_file, response>>

\* ------------------------------------------------------------------------
\* Bounds of the model
\* ------------------------------------------------------------------------
\* pages of a PDF
MaxPages == 2
\* words of a PDF
MaxWords == 3

\* ------------------------------------------------------------------------
\* Text primitives (Python str methods used by the code)
\* ------------------------------------------------------------------------
LowerAlpha == <<"a","b","c","d","e","f","g","h","i","j","k","l","m",
                "n","o","p","q","r","s","t","u","v","w","x","y","z">>
UpperAlpha == <<"A","B","C","D","E","F","G","H","I","J","K","L","M",
                "N","O","P","Q","R","S","T","U","V","W","X","Y","Z">>
Digits == <<"0","1","2","3","4","5","6","7","8","9">>

Range(s) == {s[k] : k \in 1..Len(s)}

IsUpperChar(c) == c \in Range(UpperAlpha)
IsLowerChar(c) == c \in Range(LowerAlpha)
IsDigitChar(c) == c \in Range(Digits)

LowerChar(c) ==
    IF IsUpperChar(c)
    THEN LowerAlpha[CHOOSE k \in 1..26 : UpperAlpha[k] = c]
    ELSE c

\* str.lower()
Lower(t) == [k \in 1..Len(t) |-> LowerChar(t[k])]

\* str.endswith(c) for a one-character suffix
EndsWith(t, c) == Len(t) > 0 /\ t[Len(t)] = c

\* str.rstrip(chars): drop every trailing character that is in chars
RECURSIVE RStrip(_, _)
RStrip(t, chars) ==
    IF Len(t) > 0 /\ t[Len(t)] \in chars
    THEN RStrip(SubSeq(t, 1, Len(t) - 1), chars)
    ELSE t

\* str.lstrip(chars)
RECURSIVE LStrip(_, _)
LStrip(t, chars) ==
    IF Len(t) > 0 /\ t[1] \in chars
    THEN LStrip(SubSeq(t, 2, Len(t)), chars)
    ELSE t

\* str.strip(chars)
Strip(t, chars) == LStrip(RStrip(t, chars), chars)

Whitespace == {" "}
PUNCT == {".", ",", ";", ":", "(", ")", "[", "]", "{", "}"}

\* `sub in t`
Contains(t, sub) ==
    \E k \in 0..(Len(t) - Len(sub)) : SubSeq(t, k + 1, k + Len(sub)) = sub

\* " ".join(texts)
RECURSIVE Join(_)
Join(texts) ==
    IF Len(texts) = 0 THEN <<>>
    ELSE IF Len(texts) = 1 THEN texts[1]
    ELSE texts[1] \o <<" ">> \o Join(Tail(texts))

\* ------------------------------------------------------------------------
\* extract_text.py
\* ------------------------------------------------------------------------

\* STOPWORDS = load_list("stopwords.txt"): lower-cased, stripped lines
STOPWORDS == {<<"t","h","e">>}

S_creative_commons ==
    <<"c","r","e","a","t","i","v","e"," ","c","o","m","m","o","n","s">>
S_attribution == <<"a","t","t","r","i","b","u","t","i","o","n">>
S_doi == <<"d","o","i">>
S_http == <<"h","t","t","p">>
S_at == <<"@">>

\* is_garbage_phrase(text)[0]
is_garbage_phrase(text) ==
    LET t == Strip(Lower(text), Whitespace)
    IN  \/ Len(t) = 0
        \/ Contains(t, S_creative_commons) \/ Contains(t, S_attribution)
        \/ Contains(t, S_doi) \/ Contains(t, S_http)
        \/ Contains(t, S_at)

\* the keys extract_pdf_layout reads from a render_metadata entry
MetaKeys == {"rendered_width", "pdf_width", "rendered_height", "pdf_height"}

\* scale_x = meta["rendered_width"] / meta["pdf_width"]  (exact in the model:
\* the metadata drawn by Init has rendered sizes that are multiples of the
\* pdf sizes)
scale_x(meta) == meta.rendered_width \div meta.pdf_width
scale_y(meta) == meta.rendered_height \div meta.pdf_height

\* the keys the normalizer subscripts on a raw word record
CoordKeys == {"x0", "top", "x1", "bottom"}

\* text = w.get("text", "")
RawText(w) == IF "text" \in w.keys THEN w.text ELSE <<>>

\* a record the loop does not skip and whose w["x0"], w["top"], ... raise
RaisesKeyError(w) == Len(RawText(w)) > 0 /\ ~(CoordKeys \subseteq w.keys)

\* the dict appended to `normalized` for raw record k of the page
NormalizedWord(w, meta, page, k) ==
    [text   |-> RawText(w),
     x      |-> w.x0 * scale_x(meta),
     y      |-> w.top * scale_y(meta),
     width  |-> (w.x1 - w.x0) * scale_x(meta),
     height |-> (w.bottom - w.top) * scale_y(meta),
     page   |-> page,
     id     |-> <<page, k>>]

\* for w in raw_words: ... normalized.append(...)   (no record raises)
RECURSIVE NormalizeFrom(_, _, _, _)
NormalizeFrom(raw_words, meta, page, k) ==
    IF k > Len(raw_words) THEN <<>>
    ELSE IF Len(RawText(raw_words[k])) = 0
         THEN NormalizeFrom(raw_words, meta, page, k + 1)
         ELSE <<NormalizedWord(raw_words[k], meta, page, k)>>
              \o NormalizeFrom(raw_words, meta, page, k + 1)

\* round(y / 5): Python rounds half to even; y / 5 is a tie only when
\* 2 * (y mod 5) = 5, which no integer y gives
LINE_BUCKET == 5
RoundBucket(y) ==
    LET q == y \div LINE_BUCKET
        r == y % LINE_BUCKET
    IN  IF 2 * r < LINE_BUCKET THEN q
        ELSE IF 2 * r > LINE_BUCKET THEN q + 1
        ELSE IF q % 2 = 0 THEN q ELSE q + 1

\* key=lambda w: (round(w["y"] / 5), w["x"])
PageKey(w) == <<0, RoundBucket(w.y), w.x>>
\* a faulty variant of GlobalKey: the global sort forgets the page
GlobalKeyNoPage(w) == <<0, RoundBucket(w.y), w.x>>

\* key=lambda w: (w["page"], round(w["y"] / 5), w["x"])
GlobalKey(w) == <<w.page, RoundBucket(w.y), w.x>>

\* tuple comparison a <= b
KeyLE(a, b) ==
    \/ a[1] < b[1]
    \/ a[1] = b[1] /\ a[2] < b[2]
    \/ a[1] = b[1] /\ a[2] = b[2] /\ a[3] <= b[3]

\* list.sort is stable: w goes after every element whose key is <= its own
RECURSIVE InsertByKey(_, _, _)
InsertByKey(s, w, global) ==
    LET key(v) == IF global THEN GlobalKey(v) ELSE PageKey(v)
    IN  IF Len(s) = 0 THEN <<w>>
        ELSE IF KeyLE(key(s[Len(s)]), key(w)) THEN Append(s, w)
        ELSE Append(InsertByKey(SubSeq(s, 1, Len(s) - 1), w, global), s[Len(s)])

RECURSIVE SortByKey(_, _)
SortByKey(s, global) ==
    IF Len(s) = 0 THEN <<>>
    ELSE InsertByKey(SortByKey(SubSeq(s, 1, Len(s) - 1), global), s[Len(s)], global)

\* a faulty variant of IsHyphenBreak: a hyphen anywhere in the word triggers the merge
IsHyphenBreakAnywhere(text) == \E k \in 1..Len(text) : text[k] = "-"

\* current["text"].endswith("-")
IsHyphenBreak(text) == EndsWith(text, "-")

\* a faulty variant of MergedText: one hyphen is removed
MergedTextOneHyphen(cur, nxt) == SubSeq(cur, 1, Len(cur) - 1) \o nxt

\* current["text"].rstrip("-") + nxt["text"]
MergedText(cur, nxt) == RStrip(cur, {"-"}) \o nxt

\* the whole hyphen-merge loop, from cursor i (0-based)
RECURSIVE MergeFrom(_, _)
MergeFrom(s, i) ==
    IF i >= Len(s) THEN <<>>
    ELSE IF IsHyphenBreak(s[i + 1].text) /\ (i + 1) < Len(s)
         THEN <<[s[i + 1] EXCEPT !.text = MergedText(s[i + 1].text, s[i + 2].text)]>>
              \o MergeFrom(s, i + 2)
         ELSE <<s[i + 1]>> \o MergeFrom(s, i + 1)

HyphenMerge(s) == MergeFrom(s, 0)

\* raw.lower().strip(".,;:()[]{}")
Token(raw) == Strip(Lower(raw), PUNCT)

max_len == 5

\* a faulty variant of ExpandRight: the expansion does not stop at a stopword
RECURSIVE ExpandRightNoStop(_, _, _)
ExpandRightNoStop(words, i, j) ==
    IF j < Len(words) /\ (j - i) < max_len
    THEN ExpandRightNoStop(words, i, j + 1)
    ELSE j

\* a faulty variant of ExpandRight: the expansion is not limited to max_len
RECURSIVE ExpandRightNoLimit(_, _, _)
ExpandRightNoLimit(words, i, j) ==
    IF j < Len(words) /\ Token(words[j + 1].text) \notin STOPWORDS
    THEN ExpandRightNoLimit(words, i, j + 1)
    ELSE j

\* the inner while loop: the index j at which expansion stops (0-based, the
\* phrase is all_words[i .. j-1])
RECURSIVE ExpandRight(_, _, _)
ExpandRight(words, i, j) ==
    IF j < Len(words) /\ (j - i) < max_len
       /\ Token(words[j + 1].text) \notin STOPWORDS
    THEN ExpandRight(words, i, j + 1)
    ELSE j

\* " ".join([pw["text"] for pw in phrase_words]).strip()
PhraseText(phrase_words) ==
    Strip(Join([k \in 1..Len(phrase_words) |-> phrase_words[k].text]), Whitespace)

\* the variables of the entry points a behaviour does not exercise
LayoutIdle ==
    /\ doc = <<>> /\ render_metadata = <<>> /\ page_index = 0
    /\ normalized = <<>> /\ mi = 0 /\ merged = <<>> /\ all_words = <<>>
    /\ pages_output = <<>> /\ phrases = <<>> /\ pi = 0
OntoIdle ==
    /\ pages_arg = <<>> /\ collected = {} /\ candidate_terms = {}
    /\ queue = <<>> /\ qi = 0 /\ found_terms = <<>> /\ lookups = <<>>
LookupIdle == lk_term = <<>> /\ lk_resp = <<>> /\ lk_result = <<>>
MergeIdle == unified_hits = <<>> /\ mp = 0 /\ mw = 0 /\ annot = <<>>
RequestIdle == has_file = FALSE /\ response = 0

\* ---- extract_pdf_layout, one action per loop iteration -------------------

Raise(exc) ==
    /\ pc' = "raised"
    /\ outcome' = exc

\* for page_index, page in enumerate(pdf.pages): metadata lookup, word
\* extraction (which the try/except turns into [] on failure), normalization
\* and the reading-order sort
BeginPage ==
    /\ pc = "page"
    /\ page_index < Len(doc)
    /\ IF page_index >= Len(render_metadata)
       THEN Raise("IndexError") /\ UNCHANGED <<normalized, mi, merged>>
       ELSE LET meta == render_metadata[page_index + 1]
            IN  IF ~(MetaKeys \subseteq meta.keys)
                THEN Raise("KeyError") /\ UNCHANGED <<normalized, mi, merged>>
                ELSE \E extracted \in BOOLEAN :
                       LET raw_words == IF extracted
                                        THEN doc[page_index + 1].raw_words
                                        ELSE <<>>
                       IN  IF \E k \in 1..Len(raw_words) : RaisesKeyError(raw_words[k])
                           THEN Raise("KeyError")
                                /\ UNCHANGED <<normalized, mi, merged>>
                           ELSE /\ normalized' =
                                     SortByKey(NormalizeFrom(raw_words, meta,
                                                             page_index + 1, 1), FALSE)
                                /\ mi' = 0
                                /\ merged' = <<>>
                                /\ pc' = "merge"
                                /\ UNCHANGED outcome
    /\ UNCHANGED <<mode, doc, render_metadata, page_index, all_words,
                   pages_output, phrases, pi>>
    /\ UNCHANGED <<ontoVars, lookupVars, mergeVars, reqVars>>

\* one iteration of `while i < len(normalized)`
MergeStep ==
    /\ pc = "merge"
    /\ mi < Len(normalized)
    /\ LET current == normalized[mi + 1]
       IN  IF IsHyphenBreak(current.text) /\ (mi + 1) < Len(normalized)
           THEN /\ merged' = Append(merged,
                        [current EXCEPT !.text =
                            MergedText(current.text, normalized[mi + 2].text)])
                /\ mi' = mi + 2
           ELSE /\ merged' = Append(merged, current)
                /\ mi' = mi + 1
    /\ UNCHANGED <<mode, pc, outcome, doc, render_metadata, page_index,
                   normalized, all_words, pages_output, phrases, pi>>
    /\ UNCHANGED <<ontoVars, lookupVars, mergeVars, reqVars>>

\* all_words.extend(merged); pages_output.append(...)
EndPage ==
    /\ pc = "merge"
    /\ mi >= Len(normalized)
    /\ all_words' = all_words \o merged
    /\ pages_output' = Append(pages_output,
                              [page_number |-> page_index + 1,
                               width  |-> doc[page_index + 1].width,
                               height |-> doc[page_index + 1].height])
    /\ page_index' = page_index + 1
    /\ pc' = "page"
    /\ UNCHANGED <<mode, outcome, doc, render_metadata, normalized, mi, merged,
                   phrases, pi>>
    /\ UNCHANGED <<ontoVars, lookupVars, mergeVars, reqVars>>

\* all_words.sort(key=(page, round(y / 5), x)) after the last page
SortAllWords ==
    /\ pc = "page"
    /\ page_index >= Len(doc)
    /\ all_words' = SortByKey(all_words, TRUE)
    /\ phrases' = <<>>
    /\ pi' = 0
    /\ pc' = "phrases"
    /\ UNCHANGED <<mode, outcome, doc, render_metadata, page_index, normalized,
                   mi, merged, pages_output>>
    /\ UNCHANGED <<ontoVars, lookupVars, mergeVars, reqVars>>

\* one iteration of `while i < n` of the phrase extraction
PhraseStep ==
    /\ pc = "phrases"
    /\ pi < Len(all_words)
    /\ IF Token(all_words[pi + 1].text) \in STOPWORDS
       THEN /\ pi' = pi + 1
            /\ UNCHANGED phrases
       ELSE LET j == ExpandRight(all_words, pi, pi + 1)
                phrase_words == SubSeq(all_words, pi + 1, j)
                phrase_text == PhraseText(phrase_words)
            IN  /\ phrases' = IF is_garbage_phrase(Lower(phrase_text))
                              THEN phrases
                              ELSE Append(phrases, [text  |-> phrase_text,
                                                    words |-> phrase_words])
                /\ pi' = j
    /\ UNCHANGED <<mode, pc, outcome, doc, render_metadata, page_index,
                   normalized, mi, merged, all_words, pages_output>>
    /\ UNCHANGED <<ontoVars, lookupVars, mergeVars, reqVars>>

\* return target_pdf, {"pages": ..., "words": ..., "phrases": ...}
ReturnLayout ==
    /\ mode = "layout"
    /\ pc = "phrases"
    /\ pi >= Len(all_words)
    /\ pc' = "done"
    /\ outcome' = "returned"
    /\ UNCHANGED <<mode, layoutVars, ontoVars, lookupVars, mergeVars, reqVars>>

\* ---- inputs of extract_pdf_layout ---------------------------------------

RawKeys == {"text"} \cup CoordKeys

RawWord(text, x0, top) ==
    [keys |-> RawKeys, text |-> text, x0 |-> x0, top |-> top,
     x1 |-> x0 + 5, bottom |-> top + 4]

\* the word records a page may hold: a stopword with punctuation, a word
\* broken by a hyphen, a plain word, a hyphenated compound further right, a
\* plain word and an e-mail-like token on a second line, and two malformed
\* records (one without its x0, one without its text)
RawWords ==
    { RawWord(<<"T","h","e",",">>, 0, 0),
      RawWord(<<"a","-">>, 0, 0),
      RawWord(<<"b">>, 6, 0),
      RawWord(<<"c","-","d">>, 25, 0),
      RawWord(<<"d">>, 0, 5),
      RawWord(<<"x","@">>, 0, 5),
      [RawWord(<<"b">>, 6, 0) EXCEPT !.keys = RawKeys \ {"x0"}],
      [RawWord(<<>>, 0, 0) EXCEPT !.keys = CoordKeys] }

SeqsUpTo(S, n) == UNION {[1..k -> S] : k \in 0..n}

\* the numbers of words on the pages of a PDF of one to MaxPages pages with
\* at most MaxWords words in all
RECURSIVE SumOf(_)
SumOf(lens) == IF Len(lens) = 0 THEN 0 ELSE lens[1] + SumOf(Tail(lens))

PageLengths ==
    { lens \in SeqsUpTo(0..MaxWords, MaxPages) \ {<<>>} : SumOf(lens) <= MaxWords }

\* the PDF whose pages hold the words ws in order, lens[p] of them on page p
Document(ws, lens) ==
    [p \in 1..Len(lens) |->
        [raw_words |-> SubSeq(ws, SumOf(SubSeq(lens, 1, p - 1)) + 1,
                                  SumOf(SubSeq(lens, 1, p))),
         width |-> 100, height |-> 100]]

\* doc is a PDF of words of S
IsDocument(d, S) ==
    \E lens \in PageLengths : \E ws \in [1..SumOf(lens) -> S] : d = Document(ws, lens)

\* metadata carrying the sizes extract_pdf_layout reads (150 dpi rendering
\* is modelled by an integral scale of 2 horizontally and vertically)
LayoutMeta(p) ==
    [keys |-> MetaKeys \cup {"page"}, page |-> p,
     rendered_width |-> 200, pdf_width |-> 100,
     rendered_height |-> 200, pdf_height |-> 100]

LayoutInit ==
    /\ mode = "layout"
    /\ pc = "page"
    /\ outcome = "running"
    /\ IsDocument(doc, RawWords)
    /\ render_metadata = [p \in 1..Len(doc) |-> LayoutMeta(p)]
    /\ page_index = 0
    /\ normalized = <<>>
    /\ mi = 0
    /\ merged = <<>>
    /\ all_words = <<>>
    /\ pages_output = <<>>
    /\ phrases = <<>>
    /\ pi = 0
    /\ OntoIdle /\ LookupIdle /\ MergeIdle /\ RequestIdle

vars == <<mode, pc, outcome, layoutVars, ontoVars, lookupVars, mergeVars, reqVars>>

LayoutNext ==
    \/ BeginPage
    \/ MergeStep
    \/ EndPage
    \/ SortAllWords
    \/ PhraseStep
    \/ ReturnLayout

SpecLayout == LayoutInit /\ [][LayoutNext]_vars

\* ---- extract_pdf_layout on words that end in hyphens ---------------------

\* words of one line, from left to right: a word broken by a hyphen, a word
\* that ends in two hyphens, a hyphen on its own and a plain word
HyphenWords ==
    { RawWord(<<"a","-">>, 0, 0),
      RawWord(<<"b","-","-">>, 6, 0),
      RawWord(<<"-">>, 12, 0),
      RawWord(<<"c">>, 18, 0) }

HyphenInit ==
    /\ mode = "layout"
    /\ pc = "page"
    /\ outcome = "running"
    /\ IsDocument(doc, HyphenWords)
    /\ render_metadata = [p \in 1..Len(doc) |-> LayoutMeta(p)]
    /\ page_index = 0
    /\ normalized = <<>>
    /\ mi = 0
    /\ merged = <<>>
    /\ all_words = <<>>
    /\ pages_output = <<>>
    /\ phrases = <<>>
    /\ pi = 0
    /\ OntoIdle /\ LookupIdle /\ MergeIdle /\ RequestIdle

SpecHyphen == HyphenInit /\ [][LayoutNext]_vars

\* ---- extract_pdf_layout on one line of many words ------------------------

\* words of the line
MaxRunWords == 7

\* a stopword with a capital and a comma, a plain word, an e-mail-like token
RunTexts == { <<"T","h","e",",">>, <<"b">>, <<"x","@">> }

\* a PDF of one page with the words ts on one line, from left to right
RunDocument(ts) ==
    << [raw_words |-> [k \in 1..Len(ts) |-> RawWord(ts[k], 6 * (k - 1), 0)],
        width |-> 100, height |-> 100] >>

RunInit ==
    /\ mode = "layout"
    /\ pc = "page"
    /\ outcome = "running"
    /\ \E ts \in SeqsUpTo(RunTexts, MaxRunWords) : doc = RunDocument(ts)
    /\ render_metadata = [p \in 1..Len(doc) |-> LayoutMeta(p)]
    /\ page_index = 0
    /\ normalized = <<>>
    /\ mi = 0
    /\ merged = <<>>
    /\ all_words = <<>>
    /\ pages_output = <<>>
    /\ phrases = <<>>
    /\ pi = 0
    /\ OntoIdle /\ LookupIdle /\ MergeIdle /\ RequestIdle

SpecRuns == RunInit /\ [][LayoutNext]_vars

\* ------------------------------------------------------------------------
\* ontology.py
\* ------------------------------------------------------------------------

\* the printable ASCII characters in code-point order (32 .. 126): Python
\* compares strings by code point ("DQUOTE", "BACKSLASH", "BACKTICK" name
\* characters 34, 92 and 96)
Ascii ==
    <<" ","!","DQUOTE","#","$","%","&","'","(",")","*","+",",","-",".","/",
      "0","1","2","3","4","5","6","7","8","9",":",";","<","=",">","?",
      "@","A","B","C","D","E","F","G","H","I","J","K","L","M","N","O",
      "P","Q","R","S","T","U","V","W","X","Y","Z","[","BACKSLASH","]","^","_",
      "BACKTICK","a","b","c","d","e","f","g","h","i","j","k","l","m","n","o",
      "p","q","r","s","t","u","v","w","x","y","z","{","|","}","~">>

CodePoint(c) == 31 + (CHOOSE k \in 1..Len(Ascii) : Ascii[k] = c)

\* a < b for Python strings
RECURSIVE StrLess(_, _)
StrLess(a, b) ==
    IF Len(b) = 0 THEN FALSE
    ELSE IF Len(a) = 0 THEN TRUE
    ELSE IF a[1] = b[1] THEN StrLess(Tail(a), Tail(b))
    ELSE CodePoint(a[1]) < CodePoint(b[1])

\* sorted(terms) for a set of strings
RECURSIVE Sorted(_)
Sorted(terms) ==
    IF terms = {} THEN <<>>
    ELSE LET least == CHOOSE t \in terms : \A u \in terms \ {t} : StrLess(t, u)
         IN  <<least>> \o Sorted(terms \ {least})

COMMON_WORDS ==
    {
    <<"t","h","e">>, <<"a","n","d">>, <<"f","o","r">>, <<"w","i","t","h">>,
    <<"f","r","o","m">>, <<"t","h","a","t">>, <<"t","h","i","s">>, <<"w","e","r","e">>,
    <<"h","a","v","e">>, <<"b","e","e","n">>, <<"i","n">>, <<"o","n">>,
    <<"o","f">>, <<"t","o">>, <<"a","s">>, <<"b","y">>,
    <<"i","s">>, <<"a","r","e">>, <<"b","e">>, <<"o","r">>,
    <<"a","n">>, <<"a","t">>, <<"i","t">>, <<"w","e">>,
    <<"w","a","s">>, <<"u","s","i","n","g">>, <<"u","s","e","d">>, <<"u","s","e">>,
    <<"o","u","r">>, <<"t","h","e","i","r">>, <<"t","h","e","s","e">>, <<"t","h","o","s","e">>,
    <<"i","t","s">>, <<"t","h","e","y">>, <<"t","h","e","m">>, <<"h","e">>,
    <<"s","h","e">>, <<"h","i","s">>, <<"h","e","r">>, <<"y","o","u">>,
    <<"y","o","u","r">>, <<"i">>, <<"i","n","t","o">>, <<"o","n","t","o">>,
    <<"w","i","t","h","i","n">>, <<"b","e","t","w","e","e","n">>, <<"t","h","r","o","u","g","h">>, <<"o","v","e","r">>,
    <<"u","n","d","e","r">>, <<"o","u","t">>, <<"u","p">>, <<"d","o","w","n">>,
    <<"o","f","f">>, <<"t","h","a","n">>, <<"t","h","e","n">>, <<"a","l","s","o">>,
    <<"s","u","c","h">>, <<"e","a","c","h">>, <<"b","o","t","h">>, <<"v","i","a">>,
    <<"p","e","r">>, <<"a","m","o","n","g">>, <<"a","m","i","d">>, <<"d","e","s","p","i","t","e">>,
    <<"d","u","r","i","n","g">>, <<"b","e","f","o","r","e">>, <<"a","f","t","e","r">>, <<"b","e","c","a","u","s","e">> }

SCI_PREFIXES ==
    {
    <<"b","i","o">>, <<"m","i","c","r","o">>, <<"i","m","m","u","n","o">>,
    <<"n","e","u","r","o">>, <<"c","y","t","o">>, <<"g","e","n","o">>,
    <<"p","a","t","h","o">>, <<"c","h","e","m","o">>, <<"t","h","e","r","m","o">>,
    <<"m","y","c","o">>, <<"e","n","t","o","m","o">> }

SCI_SUFFIXES ==
    {
    <<"a","s","e">>, <<"i","t","i","s">>, <<"o","s","i","s">>,
    <<"e","m","i","a">>, <<"p","h","a","g","e">>, <<"p","h","y","t","e">>,
    <<"c","o","c","c","u","s">>, <<"v","i","r","i","d","a","e">>, <<"a","c","e","a","e">>,
    <<"a","l","e","s">>, <<"b","a","c","t","e","r","i","a">>, <<"m","y","c","e","t","e","s">>,
    <<"m","y","c","o","t","i","n","a">>, <<"p","h","y","t","a">>, <<"p","h","y","c","e","a","e">>,
    <<"m","y","c","o","t","a">>, <<"a","r","c","h","a","e","a">> }

ALLOWED_LOWER ==
    {
    <<"b","i","o","f","i","l","m">>, <<"l","a","r","v","a","e">>,
    <<"p","a","t","h","o","g","e","n">>, <<"p","a","t","h","o","g","e","n","i","c">>,
    <<"l","i","p","o","p","r","o","t","e","i","n">>, <<"l","i","p","o","p","r","o","t","e","i","n","s">>,
    <<"a","d","h","e","s","i","o","n">>, <<"i","n","v","a","s","i","o","n">>,
    <<"d","i","s","s","e","m","i","n","a","t","i","o","n">>, <<"s","t","r","a","i","n">>,
    <<"s","t","r","a","i","n","s">>, <<"p","r","o","t","e","i","n">>,
    <<"p","r","o","t","e","i","n","s">>, <<"m","i","c","r","o","o","r","g","a","n","i","s","m">>,
    <<"m","i","c","r","o","o","r","g","a","n","i","s","m","s">>, <<"e","n","z","y","m","e">>,
    <<"b","a","c","t","e","r","i","a">>, <<"f","u","n","g","i">>,
    <<"c","o","l","o","n","y">>, <<"c","o","l","o","n","i","e","s">>,
    <<"p","n","e","u","m","o","n","i","a">>, <<"m","a","s","t","i","t","i","s">>,
    <<"a","r","t","h","r","i","t","i","s">>, <<"o","t","i","t","i","s">>,
    <<"m","e","d","i","a">> }

PROCEDURAL_PATTERNS ==
    {
    <<"w","e","r","e"," ","i","n","c","u","b","a","t","e","d">>, <<"c","u","l","t","u","r","e","s"," ","w","e","r","e">>,
    <<"i","n","c","u","b","a","t","e","d"," ","a","t">>, <<"l","i","s","t","e","d"," ","a","s">>,
    <<"c","o","-","f","i","r","s","t">>, <<"w","e","r","e">>,
    <<"w","a","s">>, <<"t","o"," ","i","s","o","l","a","t","e">>,
    <<"i","m","p","o","r","t","a","n","t"," ","p","a","t","h","o","g","e","n">>, <<"s","e","r","i","o","u","s"," ","p","n","e","u","m","o","n","i","a">>,
    <<"a","n"," ","i","m","p","o","r","t","a","n","t">>, <<"t","h","e"," ","g","e","n","o","m","e"," ","s","i","z","e">>,
    <<"g","e","n","o","m","e"," ","s","i","z","e"," ","o","f">>, <<"g","c"," ","c","o","n","t","e","n","t">>,
    <<"c","o","m","p","l","e","t","e"," ","g","e","n","o","m","e">>, <<"g","e","n","o","m","e"," ","s","e","q","u","e","n","c","e">>,
    <<"s","e","q","u","e","n","c","e"," ","o","f">>, <<"i","n","t","e","r","n","a","t","i","o","n","a","l"," ","l","i","c","e","n","s","e">>,
    <<"v","o","l","u","m","e">>, <<"i","s","s","u","e">>,
    <<"e","0","0","0","0","1">>, <<"a","c","c","e","s","s","i","o","n">>,
    <<"g","e","n","b","a","n","k">>, <<"s","a","m","n">>,
    <<"c","p","0">>, <<"b","i","o","s","a","m","p","l","e">>,
    <<"b","i","o","p","r","o","j","e","c","t">>, <<"b","i","o","s","y","s","t","e","m","s">> }

\* ---- regular expressions used by the filters ---------------------------
\* a pattern is a sequence of items <<class, least, most>> (most = -1: no
\* upper limit); re.match(r"^...$", t) is a match of the whole text (the
\* texts of the model hold no newline)
InClass(c, cls) ==
    CASE cls = "[A-Z]" -> IsUpperChar(c)
      [] cls = "[a-z]" -> IsLowerChar(c)
      [] cls = "[A-Za-z]" -> IsUpperChar(c) \/ IsLowerChar(c)
      [] cls = "[0-9]" -> IsDigitChar(c)
      [] cls = "[A-Za-z0-9]" -> IsUpperChar(c) \/ IsLowerChar(c) \/ IsDigitChar(c)
      [] OTHER -> c = cls

RECURSIVE MatchFrom(_, _, _, _)
MatchFrom(t, pat, item, pos) ==
    IF item > Len(pat) THEN pos = Len(t) + 1
    ELSE LET rest == Len(t) - pos + 1
             most == IF pat[item][3] = -1 \/ pat[item][3] > rest
                     THEN rest ELSE pat[item][3]
         IN  \E n \in pat[item][2]..most :
                /\ \A q \in pos..(pos + n - 1) : InClass(t[q], pat[item][1])
                /\ MatchFrom(t, pat, item + 1, pos + n)

FullMatch(t, pat) == MatchFrom(t, pat, 1, 1)

RE_Capitalized == << <<"[A-Z]", 1, 1>>, <<"[a-z]", 1, -1>> >>
RE_CapitalizedComma == RE_Capitalized \o << <<",", 1, 1>> >>
RE_TwoCapitalized == RE_Capitalized \o << <<" ", 1, 1>> >> \o RE_Capitalized
RE_NameYear ==
    RE_Capitalized \o << <<",", 1, 1>>, <<" ", 1, 1>>, <<"[0-9]", 4, 4>> >>
RE_Gene == << <<"[A-Za-z]", 2, 6>>, <<"[0-9]", 0, -1>>, <<"[A-Za-z]", 0, -1>> >>
RE_Strain == << <<"[A-Z]", 1, 4>>, <<"[0-9]", 1, 4>>, <<"[A-Za-z0-9]", 0, -1>> >>
RE_ScientificName == << <<"[A-Z]", 1, 1>>, <<"[A-Za-z]", 1, -1>> >>

\* ---- more str methods --------------------------------------------------
IsCased(c) == IsUpperChar(c) \/ IsLowerChar(c)
\* str.isupper(), str.islower(): some cased character, and no cased
\* character of the other case
IsUpperStr(t) ==
    /\ \E k \in 1..Len(t) : IsCased(t[k])
    /\ \A k \in 1..Len(t) : ~IsLowerChar(t[k])
IsLowerStr(t) ==
    /\ \E k \in 1..Len(t) : IsCased(t[k])
    /\ \A k \in 1..Len(t) : ~IsUpperChar(t[k])
\* str.isdigit(), str.isalpha()
IsDigitStr(t) == Len(t) > 0 /\ \A k \in 1..Len(t) : IsDigitChar(t[k])
IsAlphaStr(t) == Len(t) > 0 /\ \A k \in 1..Len(t) : IsCased(t[k])

StartsWithStr(t, pre) == Len(pre) <= Len(t) /\ SubSeq(t, 1, Len(pre)) = pre
EndsWithStr(t, suf) ==
    Len(suf) <= Len(t) /\ SubSeq(t, Len(t) - Len(suf) + 1, Len(t)) = suf
\* str.startswith(tuple), str.endswith(tuple)
StartsWithAny(t, pres) == \E pre \in pres : StartsWithStr(t, pre)
EndsWithAny(t, sufs) == \E suf \in sufs : EndsWithStr(t, suf)

\* keep only the characters that satisfy keep(_)
RECURSIVE FilterChars(_, _)
FilterChars(t, drop) ==
    IF Len(t) = 0 THEN <<>>
    ELSE IF t[1] \in drop THEN FilterChars(Tail(t), drop)
    ELSE <<t[1]>> \o FilterChars(Tail(t), drop)

\* re.sub(r"[^A-Za-z0-9\-]", "", raw)
WordClean(raw) ==
    FilterChars(raw, {raw[k] : k \in 1..Len(raw)}
                       \ (Range(UpperAlpha) \cup Range(LowerAlpha)
                          \cup Range(Digits) \cup {"-"}))

\* str.split(): the maximal runs of non-whitespace characters
RECURSIVE SplitFrom(_, _, _)
SplitFrom(t, pos, word) ==
    IF pos > Len(t) THEN (IF Len(word) = 0 THEN <<>> ELSE <<word>>)
    ELSE IF t[pos] \in Whitespace
         THEN (IF Len(word) = 0 THEN <<>> ELSE <<word>>) \o SplitFrom(t, pos + 1, <<>>)
         ELSE SplitFrom(t, pos + 1, Append(word, t[pos]))

Split(t) == SplitFrom(t, 1, <<>>)

\* ---- author / citation detection ---------------------------------------
looks_like_author_name(word) ==
    FullMatch(word, RE_Capitalized) \/ FullMatch(word, RE_CapitalizedComma)

S_et_al == <<"e","t"," ","a","l">>

\* a faulty variant of phrase_is_citation: only "et al" is recognised
CitationOnlyEtAl(phrase) == Contains(Lower(phrase), S_et_al)

phrase_is_citation(phrase) ==
    \/ Contains(Lower(phrase), S_et_al)
    \/ FullMatch(phrase, RE_TwoCapitalized)
    \/ FullMatch(phrase, RE_NameYear)

\* ---- basic helpers -----------------------------------------------------
is_acronym(word) == IsUpperStr(word) /\ Len(word) >= 3

\* zero-width space, soft hyphen, non-breaking hyphen (U+200B, U+00AD,
\* U+2011), each one character of a text
InvisibleChars == {"U+200B", "U+00AD", "U+2011"}

clean_token(token) ==
    FilterChars(Strip(Strip(token, Whitespace), PUNCT), InvisibleChars)

RECURSIVE CleanAll(_)
CleanAll(parts) ==
    IF Len(parts) = 0 THEN <<>>
    ELSE IF Len(clean_token(parts[1])) > 0
         THEN <<clean_token(parts[1])>> \o CleanAll(Tail(parts))
         ELSE CleanAll(Tail(parts))

words_from_phrase_text(phrase_text) == CleanAll(Split(phrase_text))

\* ---- word-level candidate filter ---------------------------------------
S_aceae == <<"a","c","e","a","e">>
S_ales == <<"a","l","e","s">>
S_protein == <<"p","r","o","t","e","i","n">>
S_proteins == <<"p","r","o","t","e","i","n","s">>

is_candidate_single_word(raw_word) ==
    LET word_clean == WordClean(raw_word)
        lower == Lower(word_clean)
    IN  IF Len(raw_word) = 0 THEN FALSE
        ELSE IF Len(word_clean) = 0 THEN FALSE
        ELSE IF Len(word_clean) < 3 THEN FALSE
        ELSE IF lower \in COMMON_WORDS THEN FALSE
        ELSE IF IsDigitStr(word_clean) THEN FALSE
        ELSE IF looks_like_author_name(word_clean) THEN FALSE
        ELSE IF is_acronym(word_clean) THEN FALSE
        ELSE IF IsLowerStr(word_clean)
             THEN \/ lower \in ALLOWED_LOWER
                  \/ StartsWithAny(lower, SCI_PREFIXES)
                  \/ EndsWithAny(lower, SCI_SUFFIXES)
        ELSE \/ FullMatch(word_clean, RE_Gene)
             \/ FullMatch(word_clean, RE_Strain)
             \/ EndsWithStr(lower, S_aceae)
             \/ EndsWithStr(lower, S_ales)
             \/ FullMatch(word_clean, RE_Capitalized)
             \/ FullMatch(word_clean, RE_ScientificName)
             \/ EndsWithStr(lower, S_protein) \/ EndsWithStr(lower, S_proteins)
             \/ StartsWithAny(lower, SCI_PREFIXES)
             \/ EndsWithAny(lower, SCI_SUFFIXES)

\* ---- phrase-level filtering / n-grams ----------------------------------
phrase_is_procedural_or_metadata(phrase) ==
    \E pat \in PROCEDURAL_PATTERNS : Contains(Lower(phrase), pat)

is_species_like(words) ==
    IF Len(words) < 2 THEN FALSE
    ELSE LET w1 == words[1]
             w2 == words[2]
         IN  /\ IsAlphaStr(w1) /\ IsAlphaStr(w2)
             /\ ~(Len(w1) < 3 \/ Len(w2) < 3)
             /\ ~(Lower(w1) \in COMMON_WORDS \/ Lower(w2) \in COMMON_WORDS)

\* the loop "keep only if at least one token is biological"
HasBiologicalToken(words) ==
    \E k \in 1..Len(words) :
        LET wc == WordClean(words[k])
        IN  /\ Len(wc) >= 3
            /\ Lower(wc) \notin COMMON_WORDS
            /\ is_candidate_single_word(wc)

S_strain == <<"s","t","r","a","i","n">>
S_serotype == <<"s","e","r","o","t","y","p","e">>
S_subspecies == <<"s","u","b","s","p","e","c","i","e","s">>

is_candidate_phrase_full(phrase_text) ==
    LET words == words_from_phrase_text(phrase_text)
        lower == Lower(phrase_text)
    IN  IF Len(phrase_text) = 0 THEN FALSE
        ELSE IF phrase_is_citation(phrase_text) THEN FALSE
        ELSE IF phrase_is_procedural_or_metadata(phrase_text) THEN FALSE
        ELSE IF Len(words) < 2 THEN FALSE
        ELSE IF \A k \in 1..Len(words) : looks_like_author_name(words[k]) THEN FALSE
        ELSE IF is_species_like(words) THEN TRUE
        ELSE IF Contains(lower, S_strain) \/ Contains(lower, S_serotype)
                \/ Contains(lower, S_subspecies) THEN TRUE
        ELSE HasBiologicalToken(words)

\* generate_ngrams(tokens, min_n, max_n): n-grams in order of n, then of i
RECURSIVE generate_ngrams(_, _, _)
generate_ngrams(tokens, min_n, max_n) ==
    IF min_n > max_n THEN <<>>
    ELSE (IF Len(tokens) < min_n THEN <<>>
          ELSE [i \in 1..(Len(tokens) - min_n + 1) |->
                    Join(SubSeq(tokens, i, i + min_n - 1))])
         \o generate_ngrams(tokens, min_n + 1, max_n)

KeepNgram(ng) ==
    /\ ~phrase_is_procedural_or_metadata(ng)
    /\ ~phrase_is_citation(ng)
    /\ HasBiologicalToken(words_from_phrase_text(ng))

\* the list phrase_ngrams_for_ontology returns, as the set of its members
phrase_ngrams_for_ontology(phrase_text) ==
    LET tokens == words_from_phrase_text(phrase_text)
        ngrams == generate_ngrams(tokens, 2, 3)
    IN  (IF is_candidate_phrase_full(phrase_text) THEN {phrase_text} ELSE {})
        \cup (IF Len(tokens) < 2 THEN {}
              ELSE {ngrams[k] : k \in {m \in 1..Len(ngrams) : KeepNgram(ngrams[m])}})

\* ---- lookup_term_ols4 ---------------------------------------------------
\* What the search service does with one request (resp.kind):
\*   "connection_error", "timeout"  requests.get raises
\*   "http_error"                   a non-2xx status: raise_for_status raises
\*   "bad_json"                     r.json() raises ValueError
\*   "not_object"                   the body is JSON but no object: data.get
\*                                  raises AttributeError
\*   "ok"                           an object whose response.docs is resp.docs
\* Python's None, as a return value
None == [none |-> TRUE]

Returned(v) == [raised |-> FALSE, exc |-> "", value |-> v]
Raised(e) == [raised |-> TRUE, exc |-> e, value |-> None]

\* definition_list = doc.get("description") or []
\* definition = definition_list[0].strip() if definition_list else ""
DefinitionOf(d) ==
    IF "description" \in d.keys /\ Len(d.description) > 0
    THEN Strip(d.description[1], Whitespace)
    ELSE <<>>

\* label = doc.get("label", "")
LabelOf(d) == IF "label" \in d.keys THEN d.label ELSE <<>>

HitOf(d) ==
    [label |-> LabelOf(d), definition |-> DefinitionOf(d),
     iri |-> IF "iri" \in d.keys THEN d.iri ELSE <<"None">>]

\* Stage 1: exact label match
Stage1Match(d, term) ==
    /\ Len(LabelOf(d)) > 0
    /\ Lower(LabelOf(d)) = Lower(term)
    /\ Len(DefinitionOf(d)) > 0

\* Stage 2: label contains term
Stage2Match(d, term) ==
    /\ Len(LabelOf(d)) > 0
    /\ Contains(Lower(LabelOf(d)), Lower(term))
    /\ Len(DefinitionOf(d)) > 0

\* the first doc of the list that matches at the given stage (0: none)
FirstMatch(docs, term, stage) ==
    LET hits == {k \in 1..Len(docs) :
                    IF stage = 1 THEN Stage1Match(docs[k], term)
                    ELSE Stage2Match(docs[k], term)}
    IN  IF hits = {} THEN 0
        ELSE CHOOSE k \in hits : \A m \in hits : k <= m

\* the body of the try block
TryLookup(term, resp) ==
    CASE resp.kind = "connection_error" -> Raised("ConnectionError")
      [] resp.kind = "timeout" -> Raised("Timeout")
      [] resp.kind = "http_error" -> Raised("HTTPError")
      [] resp.kind = "bad_json" -> Raised("ValueError")
      [] resp.kind = "not_object" -> Raised("AttributeError")
      [] OTHER ->
           IF Len(resp.docs) = 0 THEN Returned(None)
           ELSE IF FirstMatch(resp.docs, term, 1) # 0
                THEN Returned(HitOf(resp.docs[FirstMatch(resp.docs, term, 1)]))
           ELSE IF FirstMatch(resp.docs, term, 2) # 0
                THEN Returned(HitOf(resp.docs[FirstMatch(resp.docs, term, 2)]))
           ELSE Returned(None)

\* a faulty variant of CaughtByExcept: only the errors of the requests library are caught
CaughtOnlyRequestErrors(exc) == exc \in {"ConnectionError", "Timeout", "HTTPError"}

\* except Exception: every exception the try block can raise derives from it
CaughtByExcept(exc) ==
    exc \in {"ConnectionError", "Timeout", "HTTPError", "ValueError",
             "AttributeError", "KeyError", "IndexError", "TypeError"}

lookup_term_ols4(term, resp) ==
    LET r == TryLookup(term, resp)
    IN  IF r.raised /\ CaughtByExcept(r.exc) THEN Returned(None) ELSE r

\* one call of lookup_term_ols4 on its own
LookupCall ==
    /\ mode = "lookup"
    /\ pc = "call"
    /\ lk_result' = lookup_term_ols4(lk_term, lk_resp)
    /\ pc' = IF lk_result'.raised THEN "raised" ELSE "done"
    /\ outcome' = IF lk_result'.raised THEN lk_result'.exc ELSE "returned"
    /\ UNCHANGED <<mode, lk_term, lk_resp, layoutVars, ontoVars, mergeVars, reqVars>>

\* ---- extract_ontology_terms ---------------------------------------------
\* scaled from the code's 300 so that a document of a few words exceeds it
MAX_TERMS_PER_DOCUMENT == 3

\* the terms one page adds to candidate_terms
PageCandidates(page) ==
    {page.words[k].text : k \in {m \in 1..Len(page.words) :
          Len(page.words[m].text) > 0 /\ is_candidate_single_word(page.words[m].text)}}
    \cup UNION {phrase_ngrams_for_ontology(page.phrases[k].text) :
                  k \in {m \in 1..Len(page.phrases) : Len(page.phrases[m].text) > 0}}

\* 1. Collect candidates.  Iterating a dict yields its keys, which are
\* strings: page.get then raises AttributeError.
CollectCandidates ==
    /\ mode = "ontology"
    /\ pc = "collect"
    /\ IF pages_arg.type = "dict" /\ pages_arg.dict_keys # {}
       THEN Raise("AttributeError") /\ UNCHANGED <<collected, candidate_terms>>
       ELSE /\ candidate_terms' =
                 UNION {PageCandidates(pages_arg.pages[k]) :
                          k \in 1..Len(pages_arg.pages)}
            /\ collected' = candidate_terms'
            /\ pc' = "cap"
            /\ UNCHANGED outcome
    /\ UNCHANGED <<mode, pages_arg, queue, qi, found_terms, lookups,
                   layoutVars, lookupVars, mergeVars, reqVars>>

\* a faulty variant of Capped: the cap keeps the last terms of the sorted order
CappedTail(terms) ==
    IF Cardinality(terms) > MAX_TERMS_PER_DOCUMENT
    THEN {Sorted(terms)[k] :
            k \in (Cardinality(terms) - MAX_TERMS_PER_DOCUMENT + 1)..Cardinality(terms)}
    ELSE terms

\* set(islice(sorted(candidate_terms), MAX_TERMS_PER_DOCUMENT)) when over the cap
Capped(terms) ==
    IF Cardinality(terms) > MAX_TERMS_PER_DOCUMENT
    THEN {Sorted(terms)[k] : k \in 1..MAX_TERMS_PER_DOCUMENT}
    ELSE terms

\* 2. Cap total terms; then `for term in sorted(candidate_terms)` starts
CapTerms ==
    /\ mode = "ontology"
    /\ pc = "cap"
    /\ candidate_terms' = Capped(candidate_terms)
    /\ queue' = Sorted(candidate_terms')
    /\ qi' = 0
    /\ found_terms' = <<>>
    /\ pc' = "query"
    /\ UNCHANGED <<mode, outcome, pages_arg, collected, lookups,
                   layoutVars, lookupVars, mergeVars, reqVars>>

\* the answers of the search service to a query for term that the loop of
\* extract_ontology_terms is run against: every failure, no docs, a doc
\* without definition, and a defined doc with the queried label
DocFor(term, description) ==
    [keys |-> {"label", "description", "iri", "ontology_prefix"},
     label |-> term, description |-> description,
     iri |-> <<"iri", "go", term>>, ontology_prefix |-> "go"]

StubResponses(term) ==
    {[kind |-> k, docs |-> <<>>] :
        k \in {"connection_error", "timeout", "http_error", "bad_json",
               "not_object", "ok"}}
    \cup {[kind |-> "ok", docs |-> <<DocFor(term, <<>>)>>],
          [kind |-> "ok", docs |-> <<DocFor(term, << <<"d","e","f">> >>)>>]}

\* 3. Query OLS4: one iteration of the loop
LookupStep ==
    /\ mode = "ontology"
    /\ pc = "query"
    /\ qi < Len(queue)
    /\ \E resp \in StubResponses(queue[qi + 1]) :
         LET term == queue[qi + 1]
             hit == lookup_term_ols4(term, resp)
         IN  /\ lookups' = Append(lookups, [term |-> term, kind |-> resp.kind,
                                            docs |-> Len(resp.docs), result |-> hit])
             /\ IF hit.raised
                THEN Raise(hit.exc) /\ UNCHANGED <<qi, found_terms>>
                ELSE /\ found_terms' =
                          IF hit.value # None
                          THEN [t \in DOMAIN found_terms \cup {term} |->
                                   IF t = term THEN hit.value ELSE found_terms[t]]
                          ELSE found_terms
                     /\ qi' = qi + 1
                     /\ UNCHANGED <<pc, outcome>>
    /\ UNCHANGED <<mode, pages_arg, collected, candidate_terms, queue,
                   layoutVars, lookupVars, mergeVars, reqVars>>

\* return found_terms
ReturnTerms ==
    /\ mode = "ontology"
    /\ pc = "query"
    /\ qi >= Len(queue)
    /\ pc' = "done"
    /\ outcome' = "returned"
    /\ UNCHANGED <<mode, layoutVars, ontoVars, lookupVars, mergeVars, reqVars>>

\* ---- inputs of extract_ontology_terms -----------------------------------
OntoWords ==
    { <<"o","t","i","t","i","s">>, <<"T","h","e">>, <<"u","v","r","C">> }

OntoPhrases ==
    { <<"o","t","i","t","i","s"," ","m","e","d","i","a">>,
      <<"M","y","c","o","p","l","a","s","m","a"," ","b","o","v","i","s"," ",
        "s","t","r","a","i","n">>,
      <<"S","m","i","t","h",","," ","2","0","1","9">> }

\* a list of dicts {"text": t}, in sorted order of the texts
TextDicts(texts) == [k \in 1..Cardinality(texts) |-> [text |-> Sorted(texts)[k]]]

\* the argument as the docstring has it: one dict per page, on one page or
\* with the words on a first and the phrases on a second page
PageLists ==
    { [type |-> "list", dict_keys |-> {},
       pages |-> IF split
                 THEN << [words |-> TextDicts(W), phrases |-> <<>>],
                         [words |-> <<>>, phrases |-> TextDicts(P)] >>
                 ELSE << [words |-> TextDicts(W), phrases |-> TextDicts(P)] >>] :
        <<W, P, split>> \in (SUBSET OntoWords) \X (SUBSET OntoPhrases) \X BOOLEAN }

\* the argument as server.py builds it: {"words": ..., "phrases": ...}
PageDicts ==
    { [type |-> "dict", dict_keys |-> {"words", "phrases"},
       pages |-> << [words |-> TextDicts(W), phrases |-> TextDicts(P)] >>] :
        <<W, P>> \in (SUBSET OntoWords) \X (SUBSET OntoPhrases) }

OntologyInit ==
    /\ mode = "ontology"
    /\ pc = "collect"
    /\ outcome = "running"
    /\ pages_arg \in PageLists \cup PageDicts
    /\ collected = {} /\ candidate_terms = {} /\ queue = <<>> /\ qi = 0
    /\ found_terms = <<>> /\ lookups = <<>>
    /\ LayoutIdle /\ LookupIdle /\ MergeIdle /\ RequestIdle

OntologyNext ==
    \/ CollectCandidates
    \/ CapTerms
    \/ LookupStep
    \/ ReturnTerms

SpecOntology == OntologyInit /\ [][OntologyNext]_vars

\* ------------------------------------------------------------------------
\* extract_ontology_terms on phrases with citations in them
\* ------------------------------------------------------------------------

\* two citations with a year, the second with a word that phrase candidacy
\* accepts on sight, a phrase with "et al", two capitalized words, a phrase
\* whose first two words are capitalized, and a phrase that is no citation
CitationPhrases ==
    { <<"S","m","i","t","h",","," ","2","0","1","9">>,
      <<"S","t","r","a","i","n",","," ","2","0","1","9">>,
      <<"o","t","i","t","i","s"," ","e","t"," ","a","l">>,
      <<"S","m","i","t","h"," ","J","o","n","e","s">>,
      <<"M","y","c","o","p","l","a","s","m","a"," ","B","o","v","i","s"," ",
        "s","t","r","a","i","n">>,
      <<"o","t","i","t","i","s"," ","m","e","d","i","a">> }

\* one page without single words and with any of these phrases
CitationPages(S) ==
    { [type |-> "list", dict_keys |-> {},
       pages |-> << [words |-> <<>>, phrases |-> TextDicts(P)] >>] :
        P \in SUBSET S }

CitationInit ==
    /\ mode = "ontology"
    /\ pc = "collect"
    /\ outcome = "running"
    /\ pages_arg \in CitationPages(CitationPhrases)
    /\ collected = {} /\ candidate_terms = {} /\ queue = <<>> /\ qi = 0
    /\ found_terms = <<>> /\ lookups = <<>>
    /\ LayoutIdle /\ LookupIdle /\ MergeIdle /\ RequestIdle

SpecCitations == CitationInit /\ [][OntologyNext]_vars

\* ---- inputs of lookup_term_ols4 -----------------------------------------
\* docs in a search response
MaxDocs == 2

LookupTerms ==
    { <<"o","t","i","t","i","s"," ","m","e","d","i","a">>,
      <<"O","t","i","t","i","s">> }

\* labels: the query in another case, a label that contains it, one that
\* does not, none
DocLabels ==
    { <<"O","t","i","t","i","s"," ","M","e","d","i","a">>,
      <<"a","c","u","t","e"," ","o","t","i","t","i","s"," ","m","e","d","i","a">>,
      <<"m","e","d","i","a">>,
      <<>> }

\* description: a definition padded with blanks, a blank one, an empty list
DocDescriptions ==
    { << <<" ","e","a","r"," ">> >>, << <<" ">> >>, <<>> }

OntologyPrefixes == {"go", "xyz"}

SearchDocs ==
    { [keys |-> ks, label |-> l, description |-> d,
       iri |-> <<"iri", o, l>>, ontology_prefix |-> o] :
        <<l, d, o, ks>> \in DocLabels \X DocDescriptions \X OntologyPrefixes
                            \X { {"label", "description", "iri", "ontology_prefix"},
                                 {"label", "iri", "ontology_prefix"} } }

SearchResponses(D) ==
    {[kind |-> k, docs |-> <<>>] :
        k \in {"connection_error", "timeout", "http_error", "bad_json",
               "not_object", "ok"}}
    \cup {[kind |-> "ok", docs |-> ds] : ds \in SeqsUpTo(D, MaxDocs) \ {<<>>}}

LookupInit ==
    /\ mode = "lookup"
    /\ pc = "call"
    /\ outcome = "running"
    /\ lk_term \in LookupTerms
    /\ lk_resp \in SearchResponses(SearchDocs)
    /\ lk_result = <<>>
    /\ LayoutIdle /\ OntoIdle /\ MergeIdle /\ RequestIdle

LookupNext == LookupCall

SpecLookup == LookupInit /\ [][LookupNext]_vars

\* ------------------------------------------------------------------------
\* server.py
\* ------------------------------------------------------------------------

\* the phrase extraction loop of extract_pdf_layout as a function of the
\* sorted word list, from cursor i (0-based)
RECURSIVE PhrasesFrom(_, _)
PhrasesFrom(words, i) ==
    IF i >= Len(words) THEN <<>>
    ELSE IF Token(words[i + 1].text) \in STOPWORDS THEN PhrasesFrom(words, i + 1)
    ELSE LET j == ExpandRight(words, i, i + 1)
             phrase_words == SubSeq(words, i + 1, j)
             phrase_text == PhraseText(phrase_words)
         IN  (IF is_garbage_phrase(Lower(phrase_text)) THEN <<>>
              ELSE << [text |-> phrase_text, words |-> phrase_words] >>)
             \o PhrasesFrom(words, j)

\* a word dict without definition and source
NoAnnotation == [has |-> {}, definition |-> <<>>, source |-> ""]

\* w["definition"] = d; w["source"] = s
Annotated(d, s) == [has |-> {"definition", "source"}, definition |-> d, source |-> s]

\* hit.get("source")
SourceOf(hit) == IF "source" \in DOMAIN hit THEN hit.source ELSE "None"

\* CASE 2: the definition and source a word ends with after the loop over
\* the word_fallback entries (a later matching entry overwrites an earlier)
RECURSIVE FallbackAnnotation(_, _, _)
FallbackAnnotation(entries, w, a) ==
    IF Len(entries) = 0 THEN a
    ELSE FallbackAnnotation(Tail(entries), w,
            IF Lower(Strip(w.text, Whitespace)) = Lower(entries[1].word)
            THEN Annotated(entries[1].definition, entries[1].source)
            ELSE a)

\* one iteration of `for phrase_obj in all_phrases`.  In CASE 1 the first
\* word's definition is set before hit["source"] is read.
MergePhraseStep ==
    /\ mode = "merge"
    /\ pc = "merge"
    /\ mp < Len(phrases)
    /\ LET phrase_obj == phrases[mp + 1]
           key == Strip(phrase_obj.text, Whitespace)
           ids == {phrase_obj.words[k].id : k \in 1..Len(phrase_obj.words)}
       IN  IF key \notin DOMAIN unified_hits
           THEN mp' = mp + 1 /\ UNCHANGED <<pc, outcome, annot>>
           ELSE LET hit == unified_hits[key]
                IN  IF "definition" \in DOMAIN hit
                    THEN IF "source" \in DOMAIN hit
                         THEN /\ annot' = [i \in DOMAIN annot |->
                                             IF i \in ids
                                             THEN Annotated(hit.definition, hit.source)
                                             ELSE annot[i]]
                              /\ mp' = mp + 1
                              /\ UNCHANGED <<pc, outcome>>
                         ELSE /\ annot' = [annot EXCEPT ![phrase_obj.words[1].id] =
                                             [@ EXCEPT !.has = @ \cup {"definition"},
                                                       !.definition = hit.definition]]
                              /\ Raise("KeyError")
                              /\ UNCHANGED mp
                    ELSE /\ annot' =
                              IF SourceOf(hit) = "word_fallback" /\ "words" \in DOMAIN hit
                              THEN [i \in DOMAIN annot |->
                                      IF i \in ids
                                      THEN FallbackAnnotation(hit.words,
                                             CHOOSE w \in Range(phrase_obj.words) : w.id = i,
                                             annot[i])
                                      ELSE annot[i]]
                              ELSE annot
                         /\ mp' = mp + 1
                         /\ UNCHANGED <<pc, outcome>>
    /\ UNCHANGED <<mode, unified_hits, mw, layoutVars, ontoVars, lookupVars, reqVars>>

\* one iteration of `for w in all_words`
MergeWordStep ==
    /\ mode = "merge"
    /\ pc = "merge"
    /\ mp >= Len(phrases)
    /\ mw < Len(all_words)
    /\ LET w == all_words[mw + 1]
           key == Strip(w.text, Whitespace)
       IN  annot' =
             IF key \in DOMAIN unified_hits
                /\ SourceOf(unified_hits[key]) \in {"word_definition", "ontology"}
             THEN [annot EXCEPT ![w.id] =
                     Annotated(unified_hits[key].definition, unified_hits[key].source)]
             ELSE annot
    /\ mw' = mw + 1
    /\ UNCHANGED <<mode, pc, outcome, unified_hits, mp, layoutVars, ontoVars,
                   lookupVars, reqVars>>

\* 5. image URLs on the page metadata, 6. return jsonify(...)
ReturnResponse ==
    /\ mode = "merge"
    /\ pc = "merge"
    /\ mp >= Len(phrases)
    /\ mw >= Len(all_words)
    /\ pages_output' =
         [k \in 1..Len(pages_output) |->
            [page_number |-> pages_output[k].page_number,
             width |-> pages_output[k].width,
             height |-> pages_output[k].height,
             image_url |->
               IF \E m \in 1..Len(render_metadata) :
                     render_metadata[m].page = pages_output[k].page_number
               THEN <<"CLOUD_RUN_BASE", pages_output[k].page_number>>
               ELSE <<"None">>]]
    /\ response' = 200
    /\ pc' = "done"
    /\ outcome' = "returned"
    /\ UNCHANGED <<mode, doc, render_metadata, page_index, normalized, mi, merged,
                   all_words, phrases, pi, ontoVars, lookupVars, mergeVars, has_file>>

\* ---- inputs of the annotation merge -------------------------------------
\* words of the document the merge runs on
MaxMergeWords == 3

MergeTexts ==
    { <<"o","t","i","t","i","s">>, <<"m","e","d","i","a">>, <<"T","h","e">> }

\* a sorted word list of one page, one word every 30 units on one line
MergeWordLists ==
    { [k \in 1..Len(ts) |->
          [text |-> ts[k], x |-> 30 * (k - 1), y |-> 0, width |-> 20,
           height |-> 8, page |-> 1, id |-> <<1, k>>]] :
        ts \in SeqsUpTo(MergeTexts, MaxMergeWords) \ {<<>>} }

\* what lookup_term_ols4 returns for a term the search service defines
OlsHit(term) ==
    lookup_term_ols4(term,
        [kind |-> "ok", docs |-> <<DocFor(term, << <<"d","e","f">> >>)>>]).value

\* the tables extract_ontology_terms can return for these words and phrases:
\* any subset of its candidate terms, each with its hit
HitTables(words, phrase_list) ==
    { [t \in D |-> OlsHit(t)] :
        D \in SUBSET PageCandidates([words |-> words, phrases |-> phrase_list]) }

\* the images render_pdf_pages returns: the page rendered, or skipped
ImageLists == { <<>>, << [keys |-> {"page", "path"}, page |-> 1, path |-> 1] >> }

MergeInit ==
    /\ mode = "merge"
    /\ pc = "merge"
    /\ outcome = "running"
    /\ all_words \in MergeWordLists
    /\ phrases = PhrasesFrom(all_words, 0)
    /\ unified_hits \in HitTables(all_words, phrases)
    /\ annot = [i \in {all_words[k].id : k \in 1..Len(all_words)} |-> NoAnnotation]
    /\ mp = 0 /\ mw = 0
    /\ pages_output = << [page_number |-> 1, width |-> 100, height |-> 100] >>
    /\ render_metadata \in ImageLists
    /\ doc = <<>> /\ page_index = 1 /\ normalized = <<>> /\ mi = 0
    /\ merged = <<>> /\ pi = Len(all_words)
    /\ OntoIdle /\ LookupIdle /\ RequestIdle

MergeNext ==
    \/ MergePhraseStep
    \/ MergeWordStep
    \/ ReturnResponse

SpecMerge == MergeInit /\ [][MergeNext]_vars

\* ---- the /extract request -----------------------------------------------

\* if "file" not in request.files: 400; else the upload is saved
ReceiveRequest ==
    /\ mode = "request"
    /\ pc = "request"
    /\ IF has_file
       THEN pc' = "render" /\ UNCHANGED <<outcome, response>>
       ELSE pc' = "done" /\ outcome' = "returned" /\ response' = 400
    /\ UNCHANGED <<mode, has_file, layoutVars, ontoVars, lookupVars, mergeVars>>

\* render_result = render_pdf_pages(filepath); render_metadata =
\* render_result["images"]: one {"page", "path"} dict per page that rendered
\* (a page whose rendering raises is skipped)
RECURSIVE ImagesOf(_, _, _)
ImagesOf(n, rendered, p) ==
    IF p > n THEN <<>>
    ELSE (IF p \in rendered
          THEN << [keys |-> {"page", "path"}, page |-> p, path |-> p] >>
          ELSE <<>>)
         \o ImagesOf(n, rendered, p + 1)

RenderPages ==
    /\ mode = "request"
    /\ pc = "render"
    /\ \E rendered \in SUBSET (1..Len(doc)) :
          render_metadata' = ImagesOf(Len(doc), rendered, 1)
    /\ pc' = "page"
    /\ UNCHANGED <<mode, outcome, doc, page_index, normalized, mi, merged,
                   all_words, pages_output, phrases, pi, ontoVars, lookupVars,
                   mergeVars, reqVars>>

\* an exception that leaves the view function: Flask answers 500
RespondError ==
    /\ mode = "request"
    /\ pc = "raised"
    /\ response' = 500
    /\ pc' = "done"
    /\ UNCHANGED <<mode, outcome, has_file, layoutVars, ontoVars, lookupVars,
                   mergeVars>>

RequestInit ==
    /\ mode = "request"
    /\ pc = "request"
    /\ outcome = "running"
    /\ has_file \in BOOLEAN
    /\ response = 0
    /\ IsDocument(doc, RawWords)
    /\ render_metadata = <<>> /\ page_index = 0
    /\ normalized = <<>> /\ mi = 0 /\ merged = <<>> /\ all_words = <<>>
    /\ pages_output = <<>> /\ phrases = <<>> /\ pi = 0
    /\ OntoIdle /\ LookupIdle /\ MergeIdle

RequestNext ==
    \/ ReceiveRequest
    \/ RenderPages
    \/ BeginPage
    \/ RespondError

SpecRequest == RequestInit /\ [][RequestNext]_vars

\* ------------------------------------------------------------------------
\* Properties of extract_pdf_layout (SpecLayout)
\* ------------------------------------------------------------------------

MergeFinished == mode = "layout" /\ pc = "merge" /\ mi >= Len(normalized)
LayoutDone == mode = "layout" /\ pc = "done"

\* the step-wise loop and the loop as a function agree
MergeLoopIsHyphenMerge == MergeFinished => merged = HyphenMerge(normalized)

\* C5 (as claimed): hyphen merge is idempotent: a second merge pass over the
\* output of the first changes nothing, for every sorted word sequence.
C5_HyphenMergeIdempotent == MergeFinished => HyphenMerge(merged) = merged

NoHyphenPair(s) ==
    \A k \in 1..(Len(s) - 1) :
        ~(s[k].text[Len(s[k].text)] = "-" /\ s[k + 1].text[Len(s[k + 1].text)] = "-")

\* C5 (amended): a second merge pass changes nothing whenever the sorted
\* input has no hyphen-ended word directly followed by another hyphen-ended
\* word.
C5_IdempotentWithoutHyphenPair ==
    (MergeFinished /\ NoHyphenPair(normalized)) => HyphenMerge(merged) = merged

\* C5 witness: such an input of three words in which a merge took place.
C5_Witness ==
    /\ MergeFinished
    /\ NoHyphenPair(normalized)
    /\ Len(normalized) = 3
    /\ Len(merged) = 2

\* number of (phrase, position) slots that hold word w
Occurrences(w) ==
    Cardinality({pq \in {<<p, q>> \in (1..Len(phrases)) \X (1..max_len) :
                            q <= Len(phrases[p].words)} :
                    phrases[pq[1]].words[pq[2]].id = w.id})

\* the validity check of the phrase grouping: the token, stripped of
\* surrounding punctuation, is alphabetic, alphanumeric or holds a hyphen
ValidWord(text) ==
    LET t == Strip(text, PUNCT)
    IN  /\ Len(t) > 0
        /\ \/ \A k \in 1..Len(t) :
                 IsUpperChar(t[k]) \/ IsLowerChar(t[k]) \/ IsDigitChar(t[k])
           \/ \E k \in 1..Len(t) : t[k] = "-"

NoHardSeparator == \A k \in 1..Len(all_words) : ValidWord(all_words[k].text)

IsStopword(w) == Strip(Lower(w.text), PUNCT) \in STOPWORDS

\* a run of at most max_len consecutive non-stopword words around position k
\* whose joined text is rejected as garbage
InGarbageRun(k) ==
    \E a \in 1..k : \E b \in k..Len(all_words) :
        /\ b - a < max_len
        /\ \A m \in a..b : ~IsStopword(all_words[m])
        /\ is_garbage_phrase(Lower(PhraseText(SubSeq(all_words, a, b))))

same_line(prev, cur) ==
    (IF prev.y >= cur.y THEN prev.y - cur.y ELSE cur.y - prev.y) < 5
adjacent(prev, cur) ==
    LET gap == cur.x - (prev.x + prev.width)
    IN  -3 <= gap /\ gap < 40

PhrasePairs ==
    {pq \in (1..Len(phrases)) \X (1..max_len) : pq[2] < Len(phrases[pq[1]].words)}

ReadingOrder(prev, cur) ==
    \/ prev.page < cur.page
    \/ /\ prev.page = cur.page
       /\ \/ (prev.y + 2) \div 5 < (cur.y + 2) \div 5
          \/ (prev.y + 2) \div 5 = (cur.y + 2) \div 5 /\ prev.x <= cur.x

C8_PhraseOnOnePage ==
    \A p \in 1..Len(phrases) :
        /\ Len(phrases[p].words) >= 1
        /\ \A q \in 1..Len(phrases[p].words) :
              phrases[p].words[q].page = phrases[p].words[1].page

\* ------------------------------------------------------------------------
\* Properties of the phrase loop as a function
\* ------------------------------------------------------------------------

\* The phrase list the loop of extract_pdf_layout builds step by step is
\* PhrasesFrom of the sorted word list.
PhraseLoopIsPhrasesFrom ==
    (mode = "layout" /\ pc = "done") => phrases = PhrasesFrom(all_words, 0)

\* ------------------------------------------------------------------------
\* Properties of lookup_term_ols4 and extract_ontology_terms
\* ------------------------------------------------------------------------
FailureKinds == {"connection_error", "timeout", "http_error", "bad_json", "not_object"}

LookedUp == {lookups[k].term : k \in 1..Len(lookups)}

\* C2: a lookup that ends in a transport error, a timeout, an error status
\* or a malformed body returns None, the value returned for an empty result,
\* and does not raise; the term stays out of the result table, the loop is
\* never left by an exception, and when extract_ontology_terms returns every
\* candidate has been looked up exactly once.
C2_FailedLookupIsNoHit ==
    mode = "ontology" =>
      /\ \A k \in 1..Len(lookups) :
            /\ lookups[k].kind \in FailureKinds =>
                 /\ lookups[k].result = Returned(None)
                 /\ lookups[k].term \notin DOMAIN found_terms
            /\ (lookups[k].kind = "ok" /\ lookups[k].docs = 0) =>
                 lookups[k].result = Returned(None)
      /\ Len(lookups) > 0 => pc # "raised"
      /\ Len(lookups) = qi
      /\ pc = "done" =>
            /\ LookedUp = candidate_terms
            /\ Len(lookups) = Cardinality(candidate_terms)

\* a finished run in which a failed lookup was followed by a lookup that
\* resolved its term
C2_Witness ==
    /\ mode = "ontology"
    /\ pc = "done"
    /\ \E k \in 1..Len(lookups) : \E m \in (k + 1)..Len(lookups) :
          /\ lookups[k].kind \in FailureKinds
          /\ lookups[k].term \notin DOMAIN found_terms
          /\ lookups[m].term \in DOMAIN found_terms

\* C3: when more candidates are collected than MAX_TERMS_PER_DOCUMENT, the
\* terms kept for lookup are MAX_TERMS_PER_DOCUMENT terms of the collected
\* ones, each of them sorts before each excluded term, only kept terms are
\* looked up, and the result table holds only kept terms.
C3_CapKeepsSortedHead ==
    (mode = "ontology" /\ pc \in {"query", "done"}
       /\ Cardinality(collected) > MAX_TERMS_PER_DOCUMENT) =>
      /\ Cardinality(candidate_terms) = MAX_TERMS_PER_DOCUMENT
      /\ candidate_terms \subseteq collected
      /\ \A t \in candidate_terms : \A u \in collected \ candidate_terms :
            StrLess(t, u)
      /\ LookedUp \subseteq candidate_terms
      /\ DOMAIN found_terms \subseteq candidate_terms
      /\ Cardinality(DOMAIN found_terms) <= MAX_TERMS_PER_DOCUMENT

\* a finished run over the cap in which every kept term was resolved
C3_Witness ==
    /\ mode = "ontology"
    /\ pc = "done"
    /\ Cardinality(collected) > MAX_TERMS_PER_DOCUMENT
    /\ DOMAIN found_terms = candidate_terms
    /\ LookedUp = candidate_terms

\* the local phrase dictionary the specification describes; the source has none
LocalPhraseDict == { <<"o","t","i","t","i","s"," ","m","e","d","i","a">> }

\* C4: a candidate term of the local phrase dictionary is never sent to the
\* external search, and it is resolved with source local_phrase.
C4_LocalPhrasePreemptsSearch ==
    mode = "ontology" =>
      /\ LookedUp \cap LocalPhraseDict = {}
      /\ pc = "done" =>
            \A t \in candidate_terms \cap LocalPhraseDict :
               /\ t \in DOMAIN found_terms
               /\ "source" \in DOMAIN found_terms[t]
               /\ found_terms[t].source = "local_phrase"

\* the allow-list of ontologies the specification describes; the source has none
AllowList == {"go"}

ExactCandidates(docs, term) == {k \in 1..Len(docs) : Stage1Match(docs[k], term)}
SubstringCandidates(docs, term) == {k \in 1..Len(docs) : Stage2Match(docs[k], term)}
AllowedCandidates(docs, term) ==
    {k \in SubstringCandidates(docs, term) : docs[k].ontology_prefix \in AllowList}
Least(S) == CHOOSE k \in S : \A m \in S : k <= m

\* C9: the selected hit is an exact-label candidate with a definition if one
\* exists; otherwise the first substring candidate of an allow-listed
\* ontology, or failing that the first substring candidate; otherwise None.
C9_TwoStageSelection ==
    (mode = "lookup" /\ pc = "done" /\ lk_resp.kind = "ok") =>
      LET docs == lk_resp.docs
          exact == ExactCandidates(docs, lk_term)
          sub == SubstringCandidates(docs, lk_term)
          allowed == AllowedCandidates(docs, lk_term)
      IN  IF exact # {}
          THEN \E k \in exact : lk_result = Returned(HitOf(docs[k]))
          ELSE IF allowed # {}
          THEN lk_result = Returned(HitOf(docs[Least(allowed)]))
          ELSE IF sub # {}
          THEN lk_result = Returned(HitOf(docs[Least(sub)]))
          ELSE lk_result = Returned(None)

\* What lookup_term_ols4 selects: the first exact-label candidate, else the
\* first substring candidate whatever its ontology, else None; it never raises.
LookupSelectsFirstMatch ==
    (mode = "lookup" /\ pc # "call") =>
      /\ pc = "done"
      /\ lk_resp.kind # "ok" => lk_result = Returned(None)
      /\ lk_resp.kind = "ok" =>
            LET docs == lk_resp.docs
                exact == ExactCandidates(docs, lk_term)
                sub == SubstringCandidates(docs, lk_term)
            IN  IF exact # {} THEN lk_result = Returned(HitOf(docs[Least(exact)]))
                ELSE IF sub # {} THEN lk_result = Returned(HitOf(docs[Least(sub)]))
                ELSE lk_result = Returned(None)

\* ------------------------------------------------------------------------
\* Properties of the annotation merge and of the request
\* ------------------------------------------------------------------------

\* C10: once the phrase loop has handled a phrase whose text is a key of
\* the table with a hit that has a definition, every word of the phrase
\* carries that hit's definition and a source, the same for all its words,
\* and the merge has not raised.
C10_PhraseHitOnEveryWord ==
    mode = "merge" =>
      /\ pc # "raised"
      /\ \A p \in 1..Len(phrases) :
            (p <= mp
               /\ Strip(phrases[p].text, Whitespace) \in DOMAIN unified_hits
               /\ "definition" \in DOMAIN unified_hits[Strip(phrases[p].text, Whitespace)]
               /\ mw = 0) =>
              \A k \in 1..Len(phrases[p].words) :
                 LET a == annot[phrases[p].words[k].id]
                 IN  /\ a.has = {"definition", "source"}
                     /\ a.definition =
                          unified_hits[Strip(phrases[p].text, Whitespace)].definition
                     /\ a = annot[phrases[p].words[1].id]

\* What the merge does with a hit of lookup_term_ols4: it raises KeyError
\* with the definition set on the first word of the phrase only.
MergeRaisesOnOntologyHit ==
    (mode = "merge" /\ pc = "raised") =>
      /\ outcome = "KeyError"
      /\ LET ph == phrases[mp + 1]
         IN  /\ Strip(ph.text, Whitespace) \in DOMAIN unified_hits
             /\ annot[ph.words[1].id].has = {"definition"}
             /\ \A k \in 2..Len(ph.words) : annot[ph.words[k].id].has = {}

\* C1: a request that carries a file is never left by an exception and is
\* never answered with an error status.
C1_RequestNeverFails ==
    (mode = "request" /\ has_file) => (pc # "raised" /\ response \notin {400, 500})

\* What the request does: with a file part, it always ends in an exception
\* raised by extract_pdf_layout when it reads the first page's render metadata.
RequestWithFileAlwaysRaises ==
    (mode = "request" /\ has_file /\ pc = "done") =>
      (response = 500 /\ outcome \in {"KeyError", "IndexError"})

\* extract passes {"words": ..., "phrases": ...} to extract_ontology_terms:
\* the call does not raise
OntologyAcceptsServerArgument ==
    (mode = "ontology" /\ pages_arg.type = "dict") => pc # "raised"

\* ------------------------------------------------------------------------
\* Properties of phrase candidacy (SpecCitations)
\* ------------------------------------------------------------------------

\* a citation-like text: it contains "et al", or it is two capitalized words,
\* or a capitalized word, a comma, a blank and a year of four digits
CitationLike(t) ==
    \/ Contains(Lower(t), <<"e","t"," ","a","l">>)
    \/ FullMatch(t, RE_TwoCapitalized)
    \/ FullMatch(t, RE_NameYear)

\* the texts of the phrases of the input
InputPhrases ==
    UNION { {pages_arg.pages[p].phrases[k].text : k \in 1..Len(pages_arg.pages[p].phrases)} :
              p \in 1..Len(pages_arg.pages) }

\* C11: no citation-like text is among the collected candidates, among the
\* terms kept for lookup, among the terms looked up or in the result table,
\* whether it is a phrase of the input or an n-gram of one.
C11_NoCitationCandidate ==
    mode = "ontology" =>
      \A t \in collected \cup candidate_terms \cup LookedUp \cup DOMAIN found_terms :
         ~CitationLike(t)

\* a finished run on an input with a citation-like phrase of which an n-gram
\* was looked up, and with a longer phrase that has a citation-like n-gram
\* and was itself looked up
C11_Witness ==
    /\ mode = "ontology"
    /\ pc = "done"
    /\ \E t \in InputPhrases :
          /\ CitationLike(t)
          /\ Range(generate_ngrams(words_from_phrase_text(t), 2, 3)) \cap LookedUp # {}
    /\ \E t \in InputPhrases :
          /\ ~CitationLike(t)
          /\ t \in LookedUp
          /\ \E g \in Range(generate_ngrams(words_from_phrase_text(t), 2, 3)) :
                CitationLike(g)

\* ------------------------------------------------------------------------
\* Properties of word normalization (SpecLayout)
\* ------------------------------------------------------------------------

\* a raw word record with a text and all four coordinates
WellFormed(w) == "text" \in w.keys /\ Len(w.text) > 0 /\ CoordKeys \subseteq w.keys

\* the positions of the well-formed records of the page being processed
WellFormedOnPage ==
    {k \in 1..Len(doc[page_index + 1].raw_words) :
        WellFormed(doc[page_index + 1].raw_words[k])}

\* the positions of the records with a text on the page being processed
WithTextOnPage ==
    {k \in 1..Len(doc[page_index + 1].raw_words) :
        Len(RawText(doc[page_index + 1].raw_words[k])) > 0}

NormalizedIds == {normalized[k].id : k \in 1..Len(normalized)}

\* C12: no record makes extract_pdf_layout raise, and once a page is
\* normalized its normalized words are exactly its well-formed records
\* (or none at all, when extract_words itself failed for the page).
C12_MalformedRecordDropped ==
    mode = "layout" =>
      /\ pc # "raised"
      /\ pc = "merge" =>
            \/ normalized = <<>>
            \/ NormalizedIds = {<<page_index + 1, k>> : k \in WellFormedOnPage}

\* What the normalizer does: a record without text is skipped; a record with
\* a text and without one of its coordinates raises KeyError, which ends
\* extract_pdf_layout on that page with no word of the page emitted.
NormalizationRaisesOnMissingCoordinate ==
    mode = "layout" =>
      /\ pc = "merge" =>
            \/ normalized = <<>>
            \/ /\ WithTextOnPage = WellFormedOnPage
               /\ NormalizedIds = {<<page_index + 1, k>> : k \in WithTextOnPage}
      /\ pc = "raised" =>
            /\ outcome = "KeyError"
            /\ WithTextOnPage # WellFormedOnPage
            /\ Len(pages_output) = page_index
            /\ \A k \in 1..Len(all_words) : all_words[k].page <= page_index

\* ------------------------------------------------------------------------
\* Properties of the hyphen merge (SpecHyphen)
\* ------------------------------------------------------------------------
EndsWithHyphen(t) == Len(t) > 0 /\ t[Len(t)] = "-"

WithoutLastHyphen(t) == SubSeq(t, 1, Len(t) - 1)

RECURSIVE WithoutTrailingHyphens(_)
WithoutTrailingHyphens(t) ==
    IF EndsWithHyphen(t) THEN WithoutTrailingHyphens(WithoutLastHyphen(t)) ELSE t

\* the greedy pass from position i (1-based): a word that ends with a hyphen
\* and has a successor is emitted with its text less the hyphen (less all
\* its trailing hyphens when all_hyphens) followed by the successor's text,
\* and the pass goes on two words further; any other word is emitted as is
RECURSIVE GreedyPass(_, _, _)
GreedyPass(s, i, all_hyphens) ==
    IF i > Len(s) THEN <<>>
    ELSE IF EndsWithHyphen(s[i].text) /\ i < Len(s)
         THEN << [s[i] EXCEPT !.text =
                    (IF all_hyphens THEN WithoutTrailingHyphens(s[i].text)
                     ELSE WithoutLastHyphen(s[i].text)) \o s[i + 1].text] >>
              \o GreedyPass(s, i + 2, all_hyphens)
         ELSE << s[i] >> \o GreedyPass(s, i + 1, all_hyphens)

\* the number of merges of the pass from position i
RECURSIVE Merges(_, _)
Merges(s, i) ==
    IF i > Len(s) THEN 0
    ELSE IF EndsWithHyphen(s[i].text) /\ i < Len(s) THEN 1 + Merges(s, i + 2)
         ELSE Merges(s, i + 1)

\* C13 (as claimed): at every cursor position of the merge loop the words
\* emitted so far, followed by the greedy pass over the rest, are the greedy
\* pass over the whole page, a merged word being word i's text without the
\* hyphen followed by word i+1's text; the finished output has input length
\* minus number of merges words.
C13_GreedyPassOneHyphen ==
    (mode = "layout" /\ pc = "merge") =>
      /\ merged \o GreedyPass(normalized, mi + 1, FALSE) = GreedyPass(normalized, 1, FALSE)
      /\ mi >= Len(normalized) =>
            Len(merged) = Len(normalized) - Merges(normalized, 1)

\* C13 (amended): the same with a merged word being word i's text without
\* all of its trailing hyphens followed by word i+1's text.
C13_GreedyPassAllHyphens ==
    (mode = "layout" /\ pc = "merge") =>
      /\ merged \o GreedyPass(normalized, mi + 1, TRUE) = GreedyPass(normalized, 1, TRUE)
      /\ mi >= Len(normalized) =>
            Len(merged) = Len(normalized) - Merges(normalized, 1)

\* C13 witness: a finished pass over three words in which a word ending in
\* two hyphens was merged with a hyphen-ended successor that was then not
\* examined, and the third word was emitted unchanged.
C13_Witness ==
    /\ mode = "layout" /\ pc = "merge" /\ mi >= Len(normalized)
    /\ Len(normalized) = 3
    /\ EndsWithHyphen(normalized[1].text)
    /\ EndsWithHyphen(WithoutLastHyphen(normalized[1].text))
    /\ EndsWithHyphen(normalized[2].text)
    /\ Len(merged) = 2
    /\ merged[1].text = WithoutTrailingHyphens(normalized[1].text) \o normalized[2].text
    /\ merged[2] = normalized[3]

\* ------------------------------------------------------------------------
\* Properties of the phrase extraction loop (SpecRuns)
\* ------------------------------------------------------------------------

\* the positions in all_words of the first and of the last word of phrase p
FirstPos(p) ==
    CHOOSE a \in 1..Len(all_words) : all_words[a].id = phrases[p].words[1].id
LastPos(p) == FirstPos(p) + Len(phrases[p].words) - 1

\* every phrase is a run of 1 to 5 consecutive words of all_words, none a
\* stopword, that lies before the cursor; the phrases follow one another in
\* the order of all_words without a common word
PhrasesAreOrderedRuns ==
    (mode = "layout" /\ pc \in {"phrases", "done"}) =>
      /\ pi <= Len(all_words)
      /\ pc = "done" => pi = Len(all_words)
      /\ \A p \in 1..Len(phrases) :
            /\ Len(phrases[p].words) >= 1
            /\ Len(phrases[p].words) <= 5
            /\ LastPos(p) <= pi
            /\ \A q \in 1..Len(phrases[p].words) :
                  /\ phrases[p].words[q] = all_words[FirstPos(p) + q - 1]
                  /\ ~IsStopword(phrases[p].words[q])
      /\ \A p \in 1..(Len(phrases) - 1) : LastPos(p) < FirstPos(p + 1)

\* C14: every phrase is a contiguous run of 1 to 5 words of the globally
\* sorted word list with no stopword token; phrases are in word-list order
\* and pairwise disjoint; every iteration of the scan moves the cursor
\* forward, and the scan ends with the cursor at the end of the list.
C14_PhrasesAreDisjointRuns ==
    /\ []PhrasesAreOrderedRuns
    /\ [][(mode = "layout" /\ pc = "phrases" /\ pc' = "phrases") => pi' > pi]_vars

\* C14 witness: a finished scan that skipped a stopword and cut a run of six
\* words into a phrase of five words and a phrase directly after it.
C14_Witness ==
    /\ mode = "layout" /\ pc = "done"
    /\ \E k \in 1..Len(all_words) : IsStopword(all_words[k])
    /\ \E p \in 1..(Len(phrases) - 1) :
          /\ Len(phrases[p].words) = 5
          /\ FirstPos(p + 1) = LastPos(p) + 1

====
